---- MODULE Spec2Model ----
(***************************************************************************)
(* Model of gopglite: the host-side glue around an embedded PGLite WASM    *)
(* build.  The modelled code is setupEnv / NewPGLite / Query / RunQueries  *)
(* / Close (pglite.go) and main (main.go).  The WASM runtime and the       *)
(* PostgreSQL binary are opaque: every call into them is a                 *)
(* nondeterministic choice over the results the host code distinguishes.   *)
(***************************************************************************)
EXTENDS Integers, Sequences, FiniteSets, TLC

VARIABLES
    fs,        \* state of every archive entry on disk: "absent" | "partial" | "full"
    dev,       \* state of ./dev and ./dev/urandom
    envOk,     \* the latest setupEnv call: "never" (none yet), "ok", "failed"
    rt,        \* the runtime of the process's instance: "none" | "open" | "closed"
    pmod,      \* the module of the process's instance (p.mod); "nilmod" without one
    mem,       \* linear memory of the instance's module
    modLog,    \* exported functions called on the instance's module, in order
    last,      \* record of the last operation performed (its inputs and results)
    crashed,   \* the process has ended (a panic, or log.Fatal)
    pc,        \* position of main()
    stdin      \* number of statements still to be read from standard input

vars == <<fs, dev, envOk, rt, pmod, mem, modLog, last, crashed, pc, stdin>>

----------------------------------------------------------------------------
(* Bounds *)

MemSize == 3        \* bytes of module memory
MaxSqlLen == 3      \* longest argument of a direct Query call
MaxInputLen == 4    \* longest argument of RunQueries
MaxCalls == 5       \* exported-function calls logged per module
MaxStdin == 2       \* statements available on standard input

----------------------------------------------------------------------------
(* Bytes and errors *)

NUL == 0
NL == 10
SP == 32
Letters == {97, 98}

\* An error is the chain of its messages, outermost first; nil is the empty chain.
NoErr == <<>>

\* fmt.Errorf("prefix: %w", err)
Wrap(prefix, err) == <<prefix>> \o err

\* the value that stands for a call that panicked instead of returning
Panic == <<"panic">>

----------------------------------------------------------------------------
(* The embedded archive (pglite-wasi.tar.gz): its entries in tar order.    *)
(* parent is the index of the entry that is the directory of the path, or  *)
(* 0 when that directory is not itself an entry.                           *)

Archive ==
    << [type |-> "dir",     name |-> "tmp/pglite/base",               parent |-> 0],
       [type |-> "reg",     name |-> "tmp/pglite/base/PG_VERSION",    parent |-> 1],
       [type |-> "symlink", name |-> "tmp/pglite/base/pg_link",       parent |-> 1],
       [type |-> "reg",     name |-> "tmp/pglite/bin/postgres.wasi",  parent |-> 0] >>

NEntries == Len(Archive)

EntryOf(name) == CHOOSE i \in 1..NEntries : Archive[i].name = name

Marker == EntryOf("tmp/pglite/base/PG_VERSION")
Wasm == EntryOf("tmp/pglite/bin/postgres.wasi")

\* os.Stat(marker) returns no error
MarkerPresent(f) == f[Marker] # "absent"

\* every entry of the archive is on disk with its whole content
Complete(f) == \A i \in 1..NEntries : f[i] = "full"

----------------------------------------------------------------------------
(* setupEnv *)

\* the operations of the extraction loop that can fail on entry i
FailOps(i) ==
    CASE Archive[i].type = "dir"     -> {"mkdir"}
      [] Archive[i].type = "reg"     -> {"mkdir", "create", "copy"}
      [] Archive[i].type = "symlink" -> {"symlink"}
      [] OTHER                       -> {"none"}

WithParent(f, i) ==
    IF Archive[i].parent = 0 THEN f ELSE [f EXCEPT ![Archive[i].parent] = "full"]

\* one iteration of the loop: the switch on header.Typeflag.
\* fail is the operation that fails on this entry, or "none"; wrote tells
\* whether the iteration created or rewrote the entry on disk.  os.MkdirAll
\* on a directory that exists does nothing and returns nil; os.Create
\* truncates a file that exists; os.Symlink fails when the directory of the
\* link is missing and when the link exists.
ExtractEntry(f, i, fail) ==
    CASE Archive[i].type = "dir" ->
            IF fail = "mkdir" THEN [fs |-> f, err |-> <<"mkdir">>, wrote |-> FALSE]
            ELSE [fs |-> [f EXCEPT ![i] = "full"], err |-> NoErr,
                  wrote |-> f[i] = "absent"]
      [] Archive[i].type = "reg" ->
            IF fail = "mkdir" THEN [fs |-> f, err |-> <<"mkdir">>, wrote |-> FALSE]
            ELSE IF fail = "create"
                 THEN [fs |-> WithParent(f, i), err |-> <<"create">>, wrote |-> FALSE]
            ELSE IF fail = "copy"
                 THEN [fs |-> [WithParent(f, i) EXCEPT ![i] = "partial"],
                       err |-> <<"copy">>, wrote |-> TRUE]
            ELSE [fs |-> [WithParent(f, i) EXCEPT ![i] = "full"],
                  err |-> NoErr, wrote |-> TRUE]
      [] Archive[i].type = "symlink" ->
            IF Archive[i].parent # 0 /\ f[Archive[i].parent] = "absent"
            THEN [fs |-> f, err |-> <<"no such directory">>, wrote |-> FALSE]
            ELSE IF f[i] # "absent"
            THEN [fs |-> f, err |-> <<"exists">>, wrote |-> FALSE]
            ELSE IF fail = "symlink" THEN [fs |-> f, err |-> <<"symlink">>, wrote |-> FALSE]
            ELSE [fs |-> [f EXCEPT ![i] = "full"], err |-> NoErr, wrote |-> TRUE]
      [] OTHER -> [fs |-> f, err |-> <<"unknown file type">>, wrote |-> FALSE]

\* the loop over tr.Next(): entries i..NEntries, failing with failOp at entry
\* failAt; n counts the entries written so far
RECURSIVE Extract(_, _, _, _, _)
Extract(f, i, failAt, failOp, n) ==
    IF i > NEntries THEN [fs |-> f, err |-> NoErr, written |-> n]
    ELSE LET r == ExtractEntry(f, i, IF i = failAt THEN failOp ELSE "none")
             m == IF r.wrote THEN n + 1 ELSE n
         IN IF r.err # NoErr THEN [fs |-> r.fs, err |-> r.err, written |-> m]
            ELSE Extract(r.fs, i + 1, failAt, failOp, m)

TailFails == {"none", "mkdirdev", "createdev", "rand", "write", "read"}

\* the part of setupEnv after the extraction: ./dev, ./dev/urandom, ReadFile
SetupTail(f, d, tail) ==
    IF tail = "mkdirdev" THEN [dev |-> d, err |-> <<"mkdirdev">>, blob |-> "none"]
    ELSE IF tail = "createdev"
         THEN [dev |-> IF d = "nodir" THEN "dir" ELSE d, err |-> <<"createdev">>, blob |-> "none"]
    ELSE IF tail = "rand" THEN [dev |-> "empty", err |-> <<"rand">>, blob |-> "none"]
    ELSE LET d2 == IF tail = "write" THEN "empty" ELSE "written"
         IN IF f[Wasm] = "absent" \/ tail = "read"
            THEN [dev |-> d2, err |-> <<"read">>, blob |-> "none"]
            ELSE [dev |-> d2, err |-> NoErr, blob |-> f[Wasm]]

\* a setupEnv that extracts on every call
NeedsExtractAlways(f) == TRUE

\* line 140: the extraction runs when os.Stat of the marker returns an error
NeedsExtract(f) == ~MarkerPresent(f)

\* setupEnv(): the result record carries what the call found and did.
\* err is the returned error, blob the returned bytes ("none" with an error).
setupEnv(f, d, failAt, failOp, tail) ==
    LET run == NeedsExtract(f)
        ex  == IF run THEN Extract(f, 1, failAt, failOp, 0)
               ELSE [fs |-> f, err |-> NoErr, written |-> 0]
        tl  == SetupTail(ex.fs, d, tail)
        rec == [fs |-> ex.fs, before |-> f, markerOnEntry |-> MarkerPresent(f),
                extracted |-> run, written |-> ex.written,
                faults |-> [failAt |-> failAt, failOp |-> failOp, tail |-> tail]]
    IN IF ex.err # NoErr
       THEN rec @@ [dev |-> d, err |-> ex.err, blob |-> "none"]
       ELSE rec @@ [dev |-> tl.dev, err |-> tl.err, blob |-> tl.blob]

\* the choices of one setupEnv call: an operation of the loop fails, or an
\* operation after the loop fails, or none does
EnvChoices ==
    {[failAt |-> 0, failOp |-> "none", tail |-> t] : t \in TailFails}
    \cup UNION {{[failAt |-> i, failOp |-> o, tail |-> "none"] : o \in FailOps(i)} :
                  i \in 1..NEntries}

----------------------------------------------------------------------------
(* The WASM host as the code sees it *)

\* errors an exported-function call can return
CallErrs == {<<"e1">>, <<"e2">>}

\* the exit codes a module can end with
ExitCodes == {0, 1, 2}

\* how lines 63-74 can end: wasi_snapshot_preview1.MustInstantiate panics
\* ("wasi-panic"), or r.InstantiateWithConfig returns no error and a module,
\* an *sys.ExitError with its code, or any other error.  With an error the
\* module value is the runtime's business: a usable module or nil.  A blob
\* that is not the whole binary cannot be instantiated.
InstOutcomes(blob) ==
    {[kind |-> "wasi-panic", code |-> 0, mod |-> "nilmod"],
     [kind |-> "other", code |-> 0, mod |-> "nilmod"]}
    \cup IF blob # "full" THEN {}
         ELSE {[kind |-> "ok", code |-> 0, mod |-> "mod"]}
              \cup [kind : {"exit"}, code : ExitCodes, mod : {"mod", "nilmod"}]

\* no instantiation was made
NoInst == [kind |-> "none", code |-> 0, mod |-> "nilmod"]

\* mod.ExportedFunction(fn).Call(ctx): a method call on a nil module panics,
\* a call into a closed runtime fails, any other call ends as the module decides
CallResult(m, r, outcome) ==
    IF m = "nilmod" THEN Panic
    ELSE IF r = "closed" /\ outcome = NoErr THEN <<"module closed">>
    ELSE outcome

\* api.Memory.Write(offset, v): false and no change when out of range
MemWrite(m, offset, v) ==
    IF offset + Len(v) > MemSize THEN [ok |-> FALSE, mem |-> m]
    ELSE [ok |-> TRUE,
          mem |-> [a \in 0..(MemSize - 1) |->
                     IF a >= offset /\ a < offset + Len(v) THEN v[a - offset + 1] ELSE m[a]]]

\* a fresh module's memory
ZeroMem == [a \in 0..(MemSize - 1) |-> NUL]

----------------------------------------------------------------------------
(* NewPGLite *)

\* an instantiation check that takes every exit error for a failure
InstantiateCheckAnyExit(inst) ==
    IF inst.kind = "ok" THEN [returns |-> FALSE, rt |-> "open", err |-> NoErr]
    ELSE IF inst.kind = "exit"
         THEN [returns |-> TRUE, rt |-> "closed", err |-> <<"wasm exit_code", ToString(inst.code)>>]
    ELSE [returns |-> TRUE, rt |-> "closed", err |-> Wrap("instantiate", <<inst.kind>>)]

\* an instantiation check that returns the error of a failed instantiation
\* without closing the runtime
InstantiateCheckLeaks(inst) ==
    IF inst.kind = "ok" THEN [returns |-> FALSE, rt |-> "open", err |-> NoErr]
    ELSE IF inst.kind = "exit" /\ inst.code # 0
         THEN [returns |-> TRUE, rt |-> "closed", err |-> <<"wasm exit_code", ToString(inst.code)>>]
    ELSE IF inst.kind # "exit"
         THEN [returns |-> TRUE, rt |-> "open", err |-> Wrap("instantiate", <<inst.kind>>)]
    ELSE [returns |-> FALSE, rt |-> "open", err |-> NoErr]

\* lines 75-83: what the code does with the result of the instantiation
InstantiateCheck(inst) ==
    IF inst.kind = "ok" THEN [returns |-> FALSE, rt |-> "open", err |-> NoErr]
    ELSE IF inst.kind = "exit" /\ inst.code # 0
         THEN [returns |-> TRUE, rt |-> "closed", err |-> <<"wasm exit_code", ToString(inst.code)>>]
    ELSE IF inst.kind # "exit"
         THEN [returns |-> TRUE, rt |-> "closed", err |-> Wrap("instantiate", <<inst.kind>>)]
    ELSE [returns |-> FALSE, rt |-> "open", err |-> NoErr]

\* a handshake that drops the error of use_socketfile
HandshakeIgnoresSocketfile(m, r, initdb, sock) ==
    LET c1 == [fn |-> "pg_initdb", mod |-> m, rt |-> r, res |-> CallResult(m, r, initdb)]
        c2 == [fn |-> "use_socketfile", mod |-> m, rt |-> r, res |-> CallResult(m, r, sock)]
    IN IF c1.res = Panic
       THEN [calls |-> <<c1>>, rt |-> r, outcome |-> "panic", err |-> NoErr]
       ELSE IF c1.res # NoErr
       THEN [calls |-> <<c1>>, rt |-> "closed", outcome |-> "error",
             err |-> Wrap("pg_initdb", c1.res)]
       ELSE [calls |-> <<c1, c2>>, rt |-> r, outcome |-> "ok", err |-> NoErr]

\* a handshake that calls use_socketfile whatever pg_initdb returned
HandshakeCallsBoth(m, r, initdb, sock) ==
    LET c1 == [fn |-> "pg_initdb", mod |-> m, rt |-> r, res |-> CallResult(m, r, initdb)]
        c2 == [fn |-> "use_socketfile", mod |-> m, rt |-> r, res |-> CallResult(m, r, sock)]
    IN IF c1.res = Panic
       THEN [calls |-> <<c1>>, rt |-> r, outcome |-> "panic", err |-> NoErr]
       ELSE IF c1.res # NoErr
       THEN [calls |-> <<c1, c2>>, rt |-> "closed", outcome |-> "error",
             err |-> Wrap("pg_initdb", c1.res)]
       ELSE IF c2.res # NoErr
       THEN [calls |-> <<c1, c2>>, rt |-> "closed", outcome |-> "error",
             err |-> Wrap("use_socketfile", c2.res)]
       ELSE [calls |-> <<c1, c2>>, rt |-> r, outcome |-> "ok", err |-> NoErr]

\* lines 93-106: pg_initdb, then use_socketfile.  Every call is recorded with
\* the module it went to, its result and the runtime's state when it was made.
Handshake(m, r, initdb, sock) ==
    LET c1 == [fn |-> "pg_initdb", mod |-> m, rt |-> r, res |-> CallResult(m, r, initdb)]
        c2 == [fn |-> "use_socketfile", mod |-> m, rt |-> r, res |-> CallResult(m, r, sock)]
    IN IF c1.res = Panic
       THEN [calls |-> <<c1>>, rt |-> r, outcome |-> "panic", err |-> NoErr]
       ELSE IF c1.res # NoErr
       THEN [calls |-> <<c1>>, rt |-> "closed", outcome |-> "error",
             err |-> Wrap("pg_initdb", c1.res)]
       ELSE IF c2.res # NoErr
       THEN [calls |-> <<c1, c2>>, rt |-> "closed", outcome |-> "error",
             err |-> Wrap("use_socketfile", c2.res)]
       ELSE [calls |-> <<c1, c2>>, rt |-> r, outcome |-> "ok", err |-> NoErr]

\* NewPGLite(ctx, stdout, stderr): outcome is "ok" (an instance and a nil
\* error are returned), "error" (nil and an error) or "panic"; rt is the
\* state of the runtime the call created ("none": it created none).
NewPGLite(f, d, envc, inst, initdb, sock) ==
    LET env == setupEnv(f, d, envc.failAt, envc.failOp, envc.tail)
        chk == InstantiateCheck(inst)
        hs  == Handshake(inst.mod, chk.rt, initdb, sock)
        rec == [op |-> "NewPGLite", fs |-> env.fs, dev |-> env.dev, env |-> env]
    IN IF env.err # NoErr
       THEN rec @@ [inst |-> NoInst, calls |-> <<>>, rt |-> "none",
                    outcome |-> "error", err |-> Wrap("setupEnv", env.err)]
       ELSE IF inst.kind = "wasi-panic"
       THEN rec @@ [inst |-> inst, calls |-> <<>>, rt |-> "open",
                    outcome |-> "panic", err |-> NoErr]
       ELSE IF chk.returns
       THEN rec @@ [inst |-> inst, calls |-> <<>>, rt |-> chk.rt,
                    outcome |-> "error", err |-> chk.err]
       ELSE rec @@ [inst |-> inst, calls |-> hs.calls, rt |-> hs.rt,
                    outcome |-> hs.outcome, err |-> hs.err]

FnNames(calls) == [i \in 1..Len(calls) |-> calls[i].fn]

----------------------------------------------------------------------------
(* Query, RunQueries, Close *)

\* line 112: append([]byte(sql), 0)
CString(sql) == Append(sql, NUL)

\* a Query that wraps the error of the call instead of returning it
QueryResultWrapped(callErr) == IF callErr = NoErr THEN NoErr ELSE Wrap("query", callErr)

\* line 116: the error of the call is the result of Query
QueryResult(callErr) == callErr

\* Query(sql) on an instance whose module pm has memory m and whose runtime
\* is in state r; outcome is what interactive_one decides.  memAtCall is the
\* memory when the call is made; the result of Write is not looked at.
Query(m, r, pm, sql, outcome) ==
    LET w   == MemWrite(m, 1, CString(sql))
        res == CallResult(pm, r, outcome)
    IN [mem |-> w.mem,
        calls |-> << [fn |-> "interactive_one", mod |-> pm, rt |-> r, sql |-> sql,
                      memAtCall |-> w.mem, res |-> res] >>,
        err |-> QueryResult(res)]

\* strings.Index(s, sep) for the separator "\n\n": 0-based, -1 when absent
Index(s) ==
    LET hits == {i \in 1..(Len(s) - 1) : s[i] = NL /\ s[i + 1] = NL}
    IN IF hits = {} THEN -1
       ELSE (CHOOSE i \in hits : \A j \in hits : i <= j) - 1

\* strings.Split(input, "\n\n")
RECURSIVE Split(_)
Split(s) ==
    LET i == Index(s)
    IN IF i < 0 THEN <<s>>
       ELSE <<SubSeq(s, 1, i)>> \o Split(SubSeq(s, i + 3, Len(s)))

\* utf8.RuneError, the rune of a byte that starts no valid encoding
RuneError == 65533

\* a UTF-8 continuation byte (0x80..0xBF)
IsCont(b) == b \in 128..191

\* utf8.RuneStart
RuneStart(b) == ~IsCont(b)

\* utf8.DecodeRuneInString on a string that is not empty: the first rune and
\* its width; bytes that are no valid encoding give (RuneError, 1)
DecodeRune(s) ==
    LET n  == Len(s)
        b0 == s[1]
        bad == [rune |-> RuneError, size |-> 1]
    IN IF b0 < 128 THEN [rune |-> b0, size |-> 1]
       ELSE IF b0 \in 194..223
       THEN IF n >= 2 /\ IsCont(s[2])
            THEN [rune |-> (b0 - 192) * 64 + (s[2] - 128), size |-> 2]
            ELSE bad
       ELSE IF b0 \in 224..239
       THEN IF /\ n >= 3
               /\ s[2] \in (IF b0 = 224 THEN 160..191
                            ELSE IF b0 = 237 THEN 128..159 ELSE 128..191)
               /\ IsCont(s[3])
            THEN [rune |-> (b0 - 224) * 4096 + (s[2] - 128) * 64 + (s[3] - 128),
                  size |-> 3]
            ELSE bad
       ELSE IF b0 \in 240..244
       THEN IF /\ n >= 4
               /\ s[2] \in (IF b0 = 240 THEN 144..191
                            ELSE IF b0 = 244 THEN 128..143 ELSE 128..191)
               /\ IsCont(s[3])
               /\ IsCont(s[4])
            THEN [rune |-> (b0 - 240) * 262144 + (s[2] - 128) * 4096
                           + (s[3] - 128) * 64 + (s[4] - 128),
                  size |-> 4]
            ELSE bad
       ELSE bad

\* utf8.DecodeLastRuneInString on a string that is not empty: it steps back
\* over at most three bytes to a byte that starts a rune, decodes from there,
\* and gives (RuneError, 1) unless that rune ends where the string ends
DecodeLastRune(s) ==
    LET end    == Len(s)
        lim    == IF end - 4 < 0 THEN 0 ELSE end - 4
        starts == {i \in lim..(end - 2) : RuneStart(s[i + 1])}
        start  == IF starts = {} THEN (IF lim - 1 < 0 THEN 0 ELSE lim - 1)
                  ELSE CHOOSE i \in starts : \A j \in starts : j <= i
        d      == DecodeRune(SubSeq(s, start + 1, end))
    IN IF s[end] < 128 THEN [rune |-> s[end], size |-> 1]
       ELSE IF start + d.size # end THEN [rune |-> RuneError, size |-> 1]
       ELSE d

\* unicode.IsSpace: the runes with the White_Space property
IsSpace(r) ==
    r \in (9..13) \cup {SP, 133, 160, 5760} \cup (8192..8202)
          \cup {8232, 8233, 8239, 8287, 12288}

\* strings.TrimSpace: the leading and the trailing white-space runes go
RECURSIVE TrimLeft(_)
TrimLeft(s) ==
    IF s = <<>> THEN s
    ELSE LET d == DecodeRune(s)
         IN IF IsSpace(d.rune) THEN TrimLeft(SubSeq(s, d.size + 1, Len(s))) ELSE s

RECURSIVE TrimRight(_)
TrimRight(s) ==
    IF s = <<>> THEN s
    ELSE LET d == DecodeLastRune(s)
         IN IF IsSpace(d.rune) THEN TrimRight(SubSeq(s, 1, Len(s) - d.size)) ELSE s

TrimSpace(s) == TrimRight(TrimLeft(s))

\* line 122: the chunk is submitted
Submits(line) == TrimSpace(line) # <<>>

\* a loop that goes on after a failed Query
StopsNever(err) == FALSE

\* line 124: the loop stops at an error of Query
StopsAt(err) == err # NoErr

\* the loop of RunQueries over chunks[i..]; n counts the Query calls made,
\* the failAt-th of which fails with e (failAt = 0: none fails)
RECURSIVE RunLoop(_, _, _, _, _, _, _, _, _)
RunLoop(m, r, pm, chunks, i, n, failAt, e, calls) ==
    IF i > Len(chunks) THEN [mem |-> m, calls |-> calls, err |-> NoErr]
    ELSE IF ~Submits(chunks[i])
    THEN RunLoop(m, r, pm, chunks, i + 1, n, failAt, e, calls)
    ELSE LET q == Query(m, r, pm, chunks[i], IF n + 1 = failAt THEN e ELSE NoErr)
         IN IF StopsAt(q.err)
            THEN [mem |-> q.mem, calls |-> calls \o q.calls, err |-> q.err]
            ELSE RunLoop(q.mem, r, pm, chunks, i + 1, n + 1,
                         failAt, e, calls \o q.calls)

\* RunQueries(input)
RunQueries(m, r, pm, input, failAt, e) ==
    RunLoop(m, r, pm, Split(input), 1, 0, failAt, e, <<>>)

\* Close(): p.runtime is the runtime NewPGLite created, never nil
Close(r) == IF r # "none" THEN "closed" ELSE r

----------------------------------------------------------------------------------------------------------------------------------------
(* The callers.  A process creates one instance (main, TestMain and         *)
(* runSubprocess each call NewPGLite once); the files on disk outlive it.   *)
(* last holds the result of the operation just performed until the caller   *)
(* has taken it (Return).                                                   *)

RECURSIVE SeqsUpTo(_, _)
SeqsUpTo(S, n) ==
    IF n = 0 THEN {<<>>}
    ELSE LET shorter == SeqsUpTo(S, n - 1)
         IN shorter \cup {Append(q, b) : q \in shorter, b \in S}

Sqls == SeqsUpTo(Letters, MaxSqlLen)
\* the arguments of RunQueries: line feeds, a letter, and the two bytes that
\* encode U+00A0 (in that order) and are no valid encoding otherwise
Inputs == SeqsUpTo({NL, 97, 194, 160}, MaxInputLen)
Outcomes == {NoErr} \cup CallErrs

\* the results of the two handshake calls: the second is made only after the
\* first succeeded
HsChoices ==
    {[initdb |-> e, sock |-> NoErr] : e \in CallErrs}
    \cup {[initdb |-> NoErr, sock |-> o] : o \in Outcomes}

\* the failing call of a RunQueries run over input: none, or the k-th with e
FailChoices(input) ==
    LET n == Len(SelectSeq(Split(input), Submits))
    IN {[at |-> 0, e |-> NoErr]} \cup [at : 1..n, e : CallErrs]

Idle == last.op = "none"

Init ==
    /\ fs = [i \in 1..NEntries |-> "absent"]
    /\ dev = "nodir"
    /\ envOk = "never"
    /\ rt = "none"
    /\ pmod = "nilmod"
    /\ mem = ZeroMem
    /\ modLog = <<>>
    /\ last = [op |-> "none"]
    /\ crashed = FALSE
    /\ pc = "start"
    /\ stdin = MaxStdin

\* the effect of a NewPGLite call with result r on the process
Created(r) ==
    /\ fs' = r.fs
    /\ dev' = r.dev
    /\ envOk' = IF r.env.err = NoErr THEN "ok" ELSE "failed"
    /\ last' = r @@ [prevEnvOk |-> envOk]
    /\ IF r.outcome = "ok"
       THEN rt' = r.rt /\ pmod' = r.inst.mod /\ mem' = ZeroMem
            /\ modLog' = FnNames(r.calls)
       ELSE UNCHANGED <<rt, pmod, mem, modLog>>

NewPGLiteCall ==
    /\ Idle /\ ~crashed /\ rt = "none"
    /\ \E envc \in EnvChoices, hs \in HsChoices :
         \E inst \in InstOutcomes(setupEnv(fs, dev, envc.failAt, envc.failOp, envc.tail).blob) :
            LET r == NewPGLite(fs, dev, envc, inst, hs.initdb, hs.sock)
            IN Created(r) /\ crashed' = (r.outcome = "panic")
    /\ UNCHANGED <<pc, stdin>>

QueryCall ==
    /\ Idle /\ ~crashed /\ rt # "none" /\ Len(modLog) < MaxCalls
    /\ \E sql \in Sqls, outcome \in Outcomes :
         LET q == Query(mem, rt, pmod, sql, outcome)
         IN /\ mem' = q.mem
            /\ modLog' = modLog \o FnNames(q.calls)
            /\ last' = [op |-> "Query", sql |-> sql, calls |-> q.calls, err |-> q.err]
    /\ UNCHANGED <<fs, dev, envOk, rt, pmod, crashed, pc, stdin>>

RunQueriesCall ==
    /\ Idle /\ ~crashed /\ rt # "none"
    /\ \E input \in Inputs :
         \E fail \in FailChoices(input) :
            LET q == RunQueries(mem, rt, pmod, input, fail.at, fail.e)
            IN /\ Len(modLog) + Len(q.calls) <= MaxCalls
               /\ mem' = q.mem
               /\ modLog' = modLog \o FnNames(q.calls)
               /\ last' = [op |-> "RunQueries", input |-> input, calls |-> q.calls,
                           err |-> q.err]
    /\ UNCHANGED <<fs, dev, envOk, rt, pmod, crashed, pc, stdin>>

CloseCall ==
    /\ Idle /\ ~crashed /\ rt # "none"
    /\ rt' = Close(rt)
    /\ last' = [op |-> "Close", before |-> rt]
    /\ UNCHANGED <<fs, dev, envOk, pmod, mem, modLog, crashed, pc, stdin>>

\* the caller has taken the result of the last operation
Return ==
    /\ ~Idle
    /\ last' = [op |-> "none"]
    /\ UNCHANGED <<fs, dev, envOk, rt, pmod, mem, modLog, crashed, pc, stdin>>

\* the process ends and the program is run again: the files stay
Restart ==
    /\ Idle /\ (rt # "none" \/ crashed)
    /\ rt' = "none" /\ pmod' = "nilmod" /\ mem' = ZeroMem /\ modLog' = <<>>
    /\ crashed' = FALSE
    /\ UNCHANGED <<fs, dev, envOk, last, pc, stdin>>

\* a process that creates an instance, queries it and closes it
\* (TestMain, runSubprocess)
Next == NewPGLiteCall \/ QueryCall \/ CloseCall \/ Return \/ Restart

Spec == Init /\ [][Next]_vars

\* an instance in use: the state after a successful NewPGLite on a complete tree
InitUse ==
    /\ fs = [i \in 1..NEntries |-> "full"]
    /\ dev = "written"
    /\ envOk = "ok"
    /\ rt = "open"
    /\ pmod = "mod"
    /\ mem = ZeroMem
    /\ modLog = <<"pg_initdb", "use_socketfile">>
    /\ last = [op |-> "none"]
    /\ crashed = FALSE
    /\ pc = "start"
    /\ stdin = MaxStdin

NextUse == QueryCall \/ RunQueriesCall \/ CloseCall \/ Return

SpecUse == InitUse /\ [][NextUse]_vars

----------------------------------------------------------------------------
(* main (main.go) *)

\* defaultTests, each statement shortened to a few bytes: a blank line, then
\* six statements (the third spans several lines), each followed by a blank line
DefaultTests ==
    <<NL, NL, 97, NL, NL, 98, NL, NL, 99, NL, 99, NL, NL, 100, NL, NL,
      101, NL, NL, 102, NL, NL>>

\* what reader.ReadString(';') can return with a nil error
StdinInputs == {<<59>>, <<NL, 97, 59>>}

\* log.Fatal(err): os.Exit(1) ends the process at once; the deferred
\* pg.Close() of line 43 runs only when main returns, so the runtime is left
\* as it is
LogFatal(r) == r

\* lines 39-43
MainNew ==
    /\ pc = "start"
    /\ \E envc \in EnvChoices, hs \in HsChoices :
         \E inst \in InstOutcomes(setupEnv(fs, dev, envc.failAt, envc.failOp, envc.tail).blob) :
            LET r == NewPGLite(fs, dev, envc, inst, hs.initdb, hs.sock)
            IN /\ Created(r)
               /\ crashed' = (r.outcome # "ok")
               /\ pc' = IF r.outcome = "ok" THEN "run" ELSE "exited"
    /\ UNCHANGED stdin

\* lines 45-47
MainRunQueries ==
    /\ pc = "run"
    /\ \E fail \in FailChoices(DefaultTests) :
         LET q == RunQueries(mem, rt, pmod, DefaultTests, fail.at, fail.e)
         IN /\ mem' = q.mem
            /\ modLog' = modLog \o FnNames(q.calls)
            /\ last' = [op |-> "RunQueries", input |-> DefaultTests, calls |-> q.calls,
                        err |-> q.err]
            /\ IF q.err # NoErr
               THEN pc' = "exited" /\ rt' = LogFatal(rt) /\ crashed' = TRUE
               ELSE pc' = "loop" /\ UNCHANGED <<rt, crashed>>
    /\ UNCHANGED <<fs, dev, envOk, pmod, stdin>>

\* lines 51-54: ReadString fails (a read error, or the end of the input)
MainReadFails ==
    /\ pc = "loop"
    /\ pc' = "exited" /\ rt' = LogFatal(rt) /\ crashed' = TRUE
    /\ last' = [op |-> "ReadString", err |-> <<"read">>]
    /\ UNCHANGED <<fs, dev, envOk, pmod, mem, modLog, stdin>>

\* lines 51-58: a statement is read and submitted
MainQuery ==
    /\ pc = "loop" /\ stdin > 0
    /\ stdin' = stdin - 1
    /\ \E input \in StdinInputs, outcome \in Outcomes :
         LET q == Query(mem, rt, pmod, input, outcome)
         IN /\ mem' = q.mem
            /\ modLog' = modLog \o FnNames(q.calls)
            /\ last' = [op |-> "Query", sql |-> input, calls |-> q.calls, err |-> q.err]
            /\ IF q.err # NoErr
               THEN pc' = "exited" /\ rt' = LogFatal(rt) /\ crashed' = TRUE
               ELSE UNCHANGED <<pc, rt, crashed>>
    /\ UNCHANGED <<fs, dev, envOk, pmod>>

\* the program is run again: the files stay
MainRestart ==
    /\ pc = "exited"
    /\ pc' = "start" /\ stdin' = MaxStdin
    /\ rt' = "none" /\ pmod' = "nilmod" /\ mem' = ZeroMem /\ modLog' = <<>>
    /\ crashed' = FALSE
    /\ last' = [op |-> "none"]
    /\ UNCHANGED <<fs, dev, envOk>>

NextMain == MainNew \/ MainRunQueries \/ MainReadFails \/ MainQuery \/ MainRestart

SpecMain == Init /\ [][NextMain]_vars

----------------------------------------------------------------------------
(* Claims about Query and RunQueries (SpecUse) *)

\* memory m holds the bytes v from offset on
MemHolds(m, offset, v) ==
    /\ offset + Len(v) <= MemSize
    /\ \A k \in 1..Len(v) : m[offset + k - 1] = v[k]

\* C1: whenever Query(sql) invokes interactive_one, the memory from offset 1
\* holds the bytes of sql followed by one 0 byte, and Query invokes
\* interactive_one exactly once, after the write.
C1_SqlInMemoryAtCall ==
    last.op = "Query" =>
        /\ Len(last.calls) = 1
        /\ last.calls[1].fn = "interactive_one"
        /\ MemHolds(last.calls[1].memAtCall, 1, CString(last.sql))

\* C1, for the statements that fit the module's memory: the claim holds for
\* them, also after a longer statement was written
C1_SqlInMemoryWhenInRange ==
    last.op = "Query" /\ 1 + Len(CString(last.sql)) <= MemSize =>
        /\ Len(last.calls) = 1
        /\ last.calls[1].fn = "interactive_one"
        /\ MemHolds(last.calls[1].memAtCall, 1, CString(last.sql))

\* C3: Query returns a non-nil error exactly when the interactive_one call
\* fails, nil exactly when it succeeds, and the error returned is the error
\* of the call, unchanged.
C3_QueryReturnsCallError ==
    last.op = "Query" =>
        /\ Len(last.calls) = 1
        /\ last.err = last.calls[1].res
        /\ (last.err # NoErr) <=> (last.calls[1].res # NoErr)
        /\ (last.err = NoErr) <=> (last.calls[1].res = NoErr)

C3_Witness ==
    last.op = "Query" /\ last.err \in CallErrs /\ last.calls[1].res = last.err

\* the chunks of input between separators "\n\n", stated without Split: the
\* chunks joined by the separator are the input, and no chunk holds a separator
RECURSIVE Join(_)
Join(chunks) ==
    IF Len(chunks) = 1 THEN chunks[1]
    ELSE chunks[1] \o <<NL, NL>> \o Join(Tail(chunks))

HasSeparator(c) == \E i \in 1..(Len(c) - 1) : c[i] = NL /\ c[i + 1] = NL

\* the UTF-8 encodings of the white-space characters: tab, line feed, vertical
\* tab, form feed, carriage return, space, U+0085, U+00A0, U+1680,
\* U+2000..U+200A, U+2028, U+2029, U+202F, U+205F, U+3000
WhiteSpace ==
    {<<b>> : b \in {9, 10, 11, 12, 13, 32}}
    \cup {<<194, 133>>, <<194, 160>>, <<225, 154, 128>>}
    \cup {<<226, 128, b>> : b \in (128..138) \cup {168, 169, 175}}
    \cup {<<226, 129, 159>>, <<227, 128, 128>>}

\* a chunk made of white-space characters only
RECURSIVE Blank(_)
Blank(c) ==
    \/ c = <<>>
    \/ \E w \in WhiteSpace :
          /\ Len(w) <= Len(c)
          /\ SubSeq(c, 1, Len(w)) = w
          /\ Blank(SubSeq(c, Len(w) + 1, Len(c)))

\* a chunk that is not empty after trimming: it is not white space only
NotBlank(c) == ~Blank(c)

\* C6: RunQueries splits the input on "\n\n" and calls Query once for each
\* chunk that is not empty after trimming, in input order, never for a
\* whitespace-only chunk; at the first Query that fails it returns that error
\* and submits no further chunk; it returns nil only if every submitted chunk
\* succeeded.
C6_RunQueriesSubmitsChunksInOrder ==
    last.op = "RunQueries" =>
        LET chunks == Split(last.input)
            wanted == SelectSeq(chunks, NotBlank)
            n      == Len(last.calls)
        IN /\ Join(chunks) = last.input
           /\ \A i \in 1..Len(chunks) : ~HasSeparator(chunks[i])
           /\ n <= Len(wanted)
           /\ \A i \in 1..n : /\ last.calls[i].fn = "interactive_one"
                              /\ last.calls[i].sql = wanted[i]
                              /\ NotBlank(last.calls[i].sql)
           /\ \A i \in 1..(n - 1) : last.calls[i].res = NoErr
           /\ last.err # NoErr => n >= 1 /\ last.calls[n].res = last.err
           /\ last.err = NoErr => /\ n = Len(wanted)
                                  /\ \A i \in 1..n : last.calls[i].res = NoErr

\* a run over two statements whose first Query fails
C6_Witness ==
    /\ last.op = "RunQueries"
    /\ Len(SelectSeq(Split(last.input), NotBlank)) = 2
    /\ Len(last.calls) = 1
    /\ last.err \in CallErrs

----------------------------------------------------------------------------
(* Claims about NewPGLite and Close (Spec) *)

InstFailed(inst) ==
    (inst.kind = "exit" /\ inst.code # 0) \/ inst.kind = "other"

\* the instantiation was made and did not fail
InstDone(inst) == inst.kind = "ok" \/ (inst.kind = "exit" /\ inst.code = 0)

\* the call of fn recorded in calls failed
CallFailed(calls, fn) ==
    \E i \in 1..Len(calls) : calls[i].fn = fn /\ calls[i].res \in CallErrs

\* C2: if the instantiation ends with a non-zero exit code or with an error
\* that is no exit error, or pg_initdb fails, or use_socketfile fails, then
\* NewPGLite returns a nil instance and a non-nil error, and performs no
\* later step of the initialization.
C2_FailuresSurfaceAsErrors ==
    last.op = "NewPGLite" =>
        /\ InstFailed(last.inst) =>
              /\ last.outcome = "error" /\ last.err # NoErr /\ rt = "none"
              /\ last.calls = <<>>
        /\ CallFailed(last.calls, "pg_initdb") =>
              /\ last.outcome = "error" /\ last.err # NoErr /\ rt = "none"
              /\ FnNames(last.calls) = <<"pg_initdb">>
        /\ CallFailed(last.calls, "use_socketfile") =>
              /\ last.outcome = "error" /\ last.err # NoErr /\ rt = "none"

C2_Witness ==
    /\ last.op = "NewPGLite"
    /\ CallFailed(last.calls, "use_socketfile")
    /\ last.err = Wrap("use_socketfile", last.calls[2].res)

\* C7: when NewPGLite returns an error after creating the runtime, the
\* runtime is closed; when it succeeds the runtime it created is open and is
\* the one the returned instance owns; Close closes that runtime, and a
\* second Close changes nothing and does not fail.
C7_RuntimeLifecycle ==
    /\ last.op = "NewPGLite" /\ last.outcome = "error" /\ last.rt # "none" =>
          last.rt = "closed" /\ rt = "none"
    /\ last.op = "NewPGLite" /\ last.outcome = "ok" => last.rt = "open" /\ rt = "open"
    /\ last.op = "Close" =>
          /\ rt = "closed"
          /\ ~crashed
          /\ last.before = "closed" => rt = last.before

\* Close was called on an instance that was closed already
C7_Witness == last.op = "Close" /\ last.before = "closed" /\ rt = "closed"

\* C8: when the instantiation ends with an exit error of code 0, NewPGLite
\* returns no error and leaves the runtime open at that point, and goes on
\* to call pg_initdb and use_socketfile on the module value the
\* instantiation returned.
C8_ExitCodeZeroIsNoFailure ==
    last.op = "NewPGLite" /\ last.inst.kind = "exit"
      /\ last.inst.code = 0 =>
        /\ Len(last.calls) >= 1
        /\ last.calls[1].fn = "pg_initdb"
        /\ last.calls[1].res = NoErr => Len(last.calls) = 2
        /\ Len(last.calls) = 2 => last.calls[2].fn = "use_socketfile"
        /\ \A i \in 1..Len(last.calls) :
              last.calls[i].mod = last.inst.mod /\ last.calls[i].rt = "open"
        /\ last.err = NoErr \/ last.err[1] \in {"pg_initdb", "use_socketfile"}

\* an instantiation that ended with exit code 0, followed by both calls and
\* the return of an instance
C8_Witness ==
    /\ last.op = "NewPGLite"
    /\ last.inst.kind = "exit" /\ last.inst.code = 0
    /\ last.outcome = "ok" /\ Len(last.calls) = 2 /\ rt = "open"

\* the exported functions of calls, in order, are one of the given sequences
Called(calls, allowed) == FnNames(calls) \in allowed

\* every entry of log after the first two is interactive_one
OnlyQueriesAfterHandshake(log) ==
    /\ Len(log) >= 2
    /\ SubSeq(log, 1, 2) = <<"pg_initdb", "use_socketfile">>
    /\ \A i \in 3..Len(log) : log[i] = "interactive_one"

\* the part of C5 about an instance in use: no interactive_one before both
\* handshake calls succeeded, and every Query goes to the module that
\* NewPGLite instantiated
C5_QueriesFollowHandshake ==
    /\ rt # "none" => pmod = "mod" /\ OnlyQueriesAfterHandshake(modLog)
    /\ last.op = "NewPGLite" /\ last.outcome = "ok" =>
          /\ FnNames(last.calls) = <<"pg_initdb", "use_socketfile">>
          /\ \A i \in 1..2 : last.calls[i].res = NoErr /\ last.calls[i].mod = pmod
          /\ modLog = FnNames(last.calls)
    /\ last.op = "Query" =>
          /\ Len(last.calls) = 1 /\ last.calls[1].mod = pmod
          /\ modLog[Len(modLog)] = last.calls[1].fn

\* C5: pg_initdb is called once and before use_socketfile, use_socketfile
\* once and only after pg_initdb succeeded (neither twice; pg_initdb whenever
\* the instantiation was made and did not fail, use_socketfile whenever
\* pg_initdb succeeded; both, successfully, before NewPGLite returns an
\* instance); no interactive_one is called on an instance before both
\* succeeded, and all Query calls on an instance go, in call order, to the
\* one module that NewPGLite instantiated.
C5_HandshakeOrder ==
    /\ last.op = "NewPGLite" =>
          /\ Called(last.calls,
                    {<<>>, <<"pg_initdb">>, <<"pg_initdb", "use_socketfile">>})
          /\ Len(last.calls) >= 1 <=> InstDone(last.inst)
          /\ Len(last.calls) = 2 <=> (Len(last.calls) >= 1 /\ last.calls[1].res = NoErr)
    /\ C5_QueriesFollowHandshake

\* a Query on an instance that NewPGLite returned
C5_Witness ==
    /\ last.op = "Query" /\ rt = "open" /\ Len(modLog) = 3
    /\ last.calls[1].mod = "mod"

----------------------------------------------------------------------------
(* Claims about setupEnv (Spec: every NewPGLite call begins with setupEnv) *)

\* the errors of the steps after the extraction
TailErrs == {<<"mkdirdev">>, <<"createdev">>, <<"rand">>, <<"read">>}

\* no operation of the call was made to fail
NoFault(e) == e.faults.failAt = 0 /\ e.faults.tail = "none"

\* C4: setupEnv extracts if and only if the marker is absent on entry: it
\* runs the extraction, and writes archive entries, only then (when no
\* operation fails it writes entries, namely every one that is not a
\* directory already on disk, and the tree is complete after it); with the
\* marker present it creates or modifies
\* no entry, so a second call after a successful first one leaves the
\* extracted tree unchanged and succeeds (no step of it fails on what the
\* first call left; it returns an error only if an operation on ./dev or the
\* read of postgres.wasi is made to fail).
C4_ExtractsIffMarkerAbsent ==
    last.op = "NewPGLite" =>
        LET e == last.env
        IN /\ e.extracted <=> ~e.markerOnEntry
           /\ e.written > 0 => ~e.markerOnEntry
           /\ ~e.markerOnEntry /\ NoFault(e) =>
                 /\ e.written > 0
                 /\ e.written = Cardinality({i \in 1..NEntries :
                                    Archive[i].type # "dir" \/ e.before[i] = "absent"})
                 /\ Complete(e.fs)
           /\ e.markerOnEntry => e.fs = e.before /\ e.written = 0
           /\ last.prevEnvOk = "ok" =>
                 /\ e.markerOnEntry
                 /\ e.fs = e.before /\ e.written = 0
                 /\ e.faults.tail = "none" => e.err = NoErr
                 /\ e.err \in {NoErr} \cup TailErrs

\* a second setupEnv call after a successful one: it skipped the extraction
\* and succeeded
C4_Witness ==
    /\ last.op = "NewPGLite" /\ last.prevEnvOk = "ok"
    /\ last.env.markerOnEntry /\ ~last.env.extracted /\ last.env.err = NoErr

\* C9: in every state reachable through setupEnv calls, also calls that
\* abort part-way, if the marker file exists then every entry of the archive
\* has been extracted; equivalently, a call that skips the extraction finds
\* a complete tree.
C9_MarkerImpliesComplete ==
    /\ MarkerPresent(fs) => Complete(fs)
    /\ last.op = "NewPGLite" /\ ~last.env.extracted => Complete(last.env.before)

----------------------------------------------------------------------------
(* Claims about main (SpecMain) *)

NDefault == Len(SelectSeq(Split(DefaultTests), Submits))

\* C10: once NewPGLite has succeeded, Close is called on the instance before
\* the process ends, on every path by which main terminates; and no statement
\* read from stdin is submitted before all default statements were submitted
\* successfully.
C10_MainClosesBeforeExit ==
    /\ pc = "exited" /\ rt # "none" => rt = "closed"
    /\ last.op = "Query" =>
          /\ Len(modLog) > 2 + NDefault
          /\ OnlyQueriesAfterHandshake(modLog)

\* C10, the second statement alone
C10_StdinAfterDefaults ==
    /\ pc = "loop" => Len(modLog) >= 2 + NDefault
    /\ last.op = "Query" => Len(modLog) > 2 + NDefault

====
